---- MODULE Spec2Model ----
(***************************************************************************)
(* A model of app.py, the Streamlit "YouTube Video Summarizer" script.     *)
(*                                                                         *)
(* One run of the script is modelled as a sequential state machine: the    *)
(* thumbnail preview (lines 112-119), the "Generate Summary" handler       *)
(* (lines 121-135), get_transcript_text (lines 27-76) and generate_summary *)
(* (lines 78-87).  The transcript service and the generation service are   *)
(* the environment: their answers are nondeterministic choices.            *)
(*                                                                         *)
(* Text is modelled as a sequence of tokens.  A URL path is a sequence of  *)
(* path tokens ("/" and pieces of segments), a transcript text a sequence  *)
(* of characters, the prompt a sequence of its literal pieces.  Python     *)
(* values are records [t |-> type, v |-> payload] so that None, "" and a   *)
(* raised exception stay distinct.                                         *)
(***************************************************************************)
EXTENDS Integers, Sequences, FiniteSets, TLC

VARIABLES
    pc,               \* position in the script
    youtube_url,      \* st.text_input, line 93
    language,         \* st.selectbox, line 94
    summary_length,   \* st.select_slider, line 95
    resolved,         \* outcome of extract_video_id at line 114 (preview)
    thumbnail,        \* whether st.image was shown, line 116
    lang_arg,         \* get_transcript_text's parameter `language`
    video_id,         \* get_transcript_text's local video_id, line 30
    tracks,           \* languages of the listed transcript tracks, line 35
    attempts,         \* languages passed to find_transcript, in order
    selected,         \* language of the selected track (`transcript`)
    transcript_data,  \* result of transcript.fetch(), line 47
    transcript_text,  \* the list built by the loop, lines 60-66
    document,         \* return value of get_transcript_text
    calls,            \* calls made to the external services, in order
    messages,         \* st.error / st.warning messages, in order
    gen_input,        \* argument of model.generate_content, line 83
    summary,          \* return value of generate_summary
    rendered          \* text given to st.markdown, line 129

vars == <<pc, youtube_url, language, summary_length, resolved, thumbnail,
          lang_arg, video_id, tracks, attempts, selected, transcript_data,
          transcript_text, document, calls, messages, gen_input, summary,
          rendered>>

-----------------------------------------------------------------------------
(* Bounds of the model *)

MaxPathLen == 3
MaxQueryLen == 2
MaxEntries == 3
MaxTextLen == 2

SeqsUpTo(S, n) == UNION {[1..k -> S] : k \in 0..n}

-----------------------------------------------------------------------------
(* Python values *)

None == [t |-> "None", v |-> <<>>]
Str(s) == [t |-> "str", v |-> s]
Raised(e) == [t |-> "raise", v |-> <<e>>]
\* a value that is neither a string, a dict nor a list (an int, an object)
Other == [t |-> "other", v |-> <<"5">>]

\* Python truthiness: None and "" are falsy
Truthy(x) == CASE x.t = "None" -> FALSE
               [] x.t = "str" -> x.v # <<>>
               [] x.t = "list" -> x.v # <<>>
               [] OTHER -> TRUE

-----------------------------------------------------------------------------
(* URLs.  A URL string scheme://netloc path ?query is the record of the    *)
(* pieces urlparse splits it into; netloc "" is a URL with no //netloc.    *)

Netlocs == {"youtu.be", "www.youtube.com", "youtube.com", "YouTube.com",
            "m.youtube.com", "example.com", ""}

PathTokens == {"/", "watch", "embed", "v", "x"}

\* with a netloc, the path is empty or begins with "/"
Paths == {<<>>} \cup {<<"/">> \o s : s \in SeqsUpTo(PathTokens, MaxPathLen)}

\* key=value pairs of the query string, in order
QueryPairs == {[k |-> "v", v |-> <<>>], [k |-> "v", v |-> <<"x">>],
               [k |-> "v", v |-> <<"y">>], [k |-> "t", v |-> <<"x">>]}

Queries == SeqsUpTo(QueryPairs, MaxQueryLen)

URLs == [netloc : Netlocs, path : Paths, query : Queries]

EmptyURL == [netloc |-> "", path |-> <<>>, query |-> <<>>]

\* urlparse(url).hostname: the netloc lower-cased, None when there is none
NoHostname == "<None>"

Hostname(url) ==
    CASE url.netloc = "" -> NoHostname
      [] url.netloc = "YouTube.com" -> "youtube.com"
      [] OTHER -> url.netloc

\* parse_qs(query)[key]: the non-blank values of key, in order
\* (keep_blank_values is False); <<>> stands for a missing key
RECURSIVE ParseQs(_, _)
ParseQs(query, key) ==
    IF query = <<>> THEN <<>>
    ELSE LET p == Head(query)
             rest == ParseQs(Tail(query), key)
         IN IF p.k = key /\ p.v # <<>> THEN <<p.v>> \o rest ELSE rest

\* path.startswith(prefix)
StartsWith(path, prefix) ==
    /\ Len(path) >= Len(prefix)
    /\ SubSeq(path, 1, Len(prefix)) = prefix

\* path.split('/'): the segments between the "/" tokens
RECURSIVE SplitSlash(_, _)
SplitSlash(path, cur) ==
    IF path = <<>> THEN <<cur>>
    ELSE IF Head(path) = "/" THEN <<cur>> \o SplitSlash(Tail(path), <<>>)
    ELSE SplitSlash(Tail(path), Append(cur, Head(path)))

Split(path) == SplitSlash(path, <<>>)

\* path[1:]
Slice1(path) == SubSeq(path, 2, Len(path))

\* extract_video_id without the /v/ branch
ExtractVideoId_NoV(url) ==
    LET hostname == Hostname(url)
    IN IF hostname = "youtu.be" THEN Str(Slice1(url.path))
       ELSE IF hostname \in {"www.youtube.com", "youtube.com"}
       THEN IF url.path = <<"/", "watch">>
            THEN LET vs == ParseQs(url.query, "v")
                 IN IF vs = <<>> THEN Raised("KeyError") ELSE Str(vs[1])
            ELSE IF StartsWith(url.path, <<"/", "embed", "/">>)
            THEN Str(Split(url.path)[3])
            ELSE None
       ELSE None

ExtractVideoId(url) ==
    LET hostname == Hostname(url)
    IN IF hostname = "youtu.be" THEN Str(Slice1(url.path))
       ELSE IF hostname \in {"www.youtube.com", "youtube.com"}
       THEN IF url.path = <<"/", "watch">>
            THEN LET vs == ParseQs(url.query, "v")
                 IN IF vs = <<>> THEN Raised("KeyError") ELSE Str(vs[1])
            ELSE IF StartsWith(url.path, <<"/", "embed", "/">>)
            THEN Str(Split(url.path)[3])
            ELSE IF StartsWith(url.path, <<"/", "v", "/">>)
            THEN Str(Split(url.path)[3])
            ELSE None
       ELSE None

-----------------------------------------------------------------------------
(* Transcript data *)

Chars == {"a", " "}

Texts == SeqsUpTo(Chars, MaxTextLen)

\* the 'text' key is absent
Missing == [t |-> "missing", v |-> <<>>]

TextValues == {Missing, None, Other} \cup {Str(s) : s \in Texts}

\* an entry is a dict (with or without a 'text' key) or something else
Entries == {[t |-> "other", text |-> Missing]}
           \cup {[t |-> "dict", text |-> x] : x \in TextValues}

List(es) == [t |-> "list", v |-> es]

\* what transcript.fetch() can return: None, a non-list object, a list
FetchedData == {None, Other} \cup {List(es) : es \in SeqsUpTo(Entries, MaxEntries)}

\* str.strip(): surrounding whitespace removed
RECURSIVE LStrip(_)
LStrip(s) == IF s # <<>> /\ Head(s) = " " THEN LStrip(Tail(s)) ELSE s

RECURSIVE RStrip(_)
RStrip(s) ==
    IF s # <<>> /\ s[Len(s)] = " " THEN RStrip(SubSeq(s, 1, Len(s) - 1)) ELSE s

\* a strip that trims the left side only
Strip_LeftOnly(s) == LStrip(s)

Strip(s) == RStrip(LStrip(s))

\* " ".join(parts)
RECURSIVE Join(_)
Join(parts) ==
    IF parts = <<>> THEN <<>>
    ELSE IF Len(parts) = 1 THEN parts[1]
    ELSE parts[1] \o <<" ">> \o Join(Tail(parts))

\* the loop body's condition, line 63
EntryPasses(entry) ==
    entry.t = "dict" /\ entry.text # Missing /\ Truthy(entry.text)

\* the loop of lines 61-66: a passing entry's text is stripped and appended;
\* .strip() on a text that is no string raises, and the entry is skipped
RECURSIVE CollectText(_, _)
CollectText(entries, acc) ==
    IF entries = <<>> THEN acc
    ELSE LET entry == Head(entries)
         IN IF EntryPasses(entry) /\ entry.text.t = "str"
            THEN CollectText(Tail(entries), Append(acc, Strip(entry.text.v)))
            ELSE CollectText(Tail(entries), acc)

Error(text) == [level |-> "error", text |-> text]
Warning(text) == [level |-> "warning", text |-> text]

\* lines 52-72 without the check of line 68
ProcessData_NoEmptyCheck(data) ==
    IF ~Truthy(data)
    THEN [msgs |-> <<Error("No transcript data received")>>,
          list |-> <<>>, doc |-> None]
    ELSE IF data.t # "list"
    THEN [msgs |-> <<Error("Received invalid transcript data format")>>,
          list |-> <<>>, doc |-> None]
    ELSE LET texts == CollectText(data.v, <<>>)
         IN [msgs |-> <<>>, list |-> texts, doc |-> Str(Join(texts))]

\* lines 52-72: [msgs, list, doc] for the fetched data
ProcessData(data) ==
    IF ~Truthy(data)
    THEN [msgs |-> <<Error("No transcript data received")>>,
          list |-> <<>>, doc |-> None]
    ELSE IF data.t # "list"
    THEN [msgs |-> <<Error("Received invalid transcript data format")>>,
          list |-> <<>>, doc |-> None]
    ELSE LET texts == CollectText(data.v, <<>>)
         IN IF texts = <<>>
            THEN [msgs |-> <<Error("No valid transcript text found in the video")>>,
                  list |-> texts, doc |-> None]
            ELSE [msgs |-> <<>>, list |-> texts, doc |-> Str(Join(texts))]

-----------------------------------------------------------------------------
(* The widgets' options and the services' answers *)

Languages == {"en", "es", "fr", "de", "it", "pt"}

Lengths == {"Short", "Medium", "Long"}

\* languages a video's transcript tracks can have
TrackLangs == {"en", "es"}

URL(netloc, path, query) == [netloc |-> netloc, path |-> path, query |-> query]

\* the URLs typed in a run of the whole script: one of each shape
PipelineURLs ==
    { EmptyURL,
      URL("www.youtube.com", <<"/", "watch">>, <<[k |-> "v", v |-> <<"x">>]>>),
      URL("www.youtube.com", <<"/", "watch">>, <<>>),
      URL("www.youtube.com", <<"/", "watch">>, <<[k |-> "v", v |-> <<>>]>>),
      URL("youtu.be", <<"/", "x">>, <<>>),
      URL("youtu.be", <<"/">>, <<>>),
      URL("youtube.com", <<"/", "embed", "/", "x">>, <<>>),
      URL("www.youtube.com", <<"/", "v", "/">>, <<>>),
      URL("www.youtube.com", <<"/", "x">>, <<>>),
      URL("example.com", <<"/", "x">>, <<>>) }

\* the data fetched in a run of the whole script
PipelineData == {None, Other} \cup {List(es) : es \in SeqsUpTo(Entries, 1)}

\* response.text of the generation service
Summaries == {Str(<<>>), Str(<<"S">>)}

NotCalled == [t |-> "uncalled", v |-> <<>>]
NoTrack == "<None>"

-----------------------------------------------------------------------------
(* The prompt, lines 97-110, as the sequence of its literal pieces *)

\* the table with Short's and Medium's limits exchanged
length_prompts_Swapped(len) ==
    CASE len = "Short" -> <<"Generate a brief summary (", "max 250 words", ")">>
      [] len = "Medium" -> <<"Generate a comprehensive summary (", "max 100 words", ")">>
      [] len = "Long" -> <<"Generate a detailed summary (", "max 500 words", ")">>

length_prompts(len) ==
    CASE len = "Short" -> <<"Generate a brief summary (", "max 100 words", ")">>
      [] len = "Medium" -> <<"Generate a comprehensive summary (", "max 250 words", ")">>
      [] len = "Long" -> <<"Generate a detailed summary (", "max 500 words", ")">>

\* summary_length.lower()
Lower(len) ==
    CASE len = "Short" -> "short"
      [] len = "Medium" -> "medium"
      [] len = "Long" -> "long"

DEFAULT_PROMPT(len) ==
    << "You are a professional YouTube content analyzer. \nGenerate a ",
       Lower(len),
       " summary of this video transcript with these elements:\n",
       "1. Key topics covered\n",
       "2. Main points discussed\n",
       "3. Important conclusions\n",
       "4. Overall significance\n",
       "\n" >>
    \o length_prompts(len)
    \o << ". Present in clear, concise bullet points:\n" >>

\* prompt + transcript, line 83
GenerationInput(prompt, transcript) == prompt \o transcript

-----------------------------------------------------------------------------
(* get_transcript_text's track selection, lines 36-44 *)

\* transcript_list.find_transcript([lang]) finds a track of that language
TrackFound(ts, lang) == lang \in ts

FallbackWarning ==
    Warning("Transcript not available in selected language. Using English instead.")

\* the warning emitted before the English track is looked up
FindOutcome_WarnBeforeFallback(ts, lang) ==
    IF TrackFound(ts, lang)
    THEN [attempts |-> <<lang>>, selected |-> lang, msgs |-> <<>>, ok |-> TRUE]
    ELSE IF TrackFound(ts, "en")
    THEN [attempts |-> <<lang, "en">>, selected |-> "en", ok |-> TRUE,
          msgs |-> <<FallbackWarning>>]
    ELSE [attempts |-> <<lang, "en">>, selected |-> NoTrack, ok |-> FALSE,
          msgs |-> <<FallbackWarning, Error("Could not find transcript")>>]

FindOutcome(ts, lang) ==
    IF TrackFound(ts, lang)
    THEN [attempts |-> <<lang>>, selected |-> lang, msgs |-> <<>>, ok |-> TRUE]
    ELSE IF TrackFound(ts, "en")
    THEN [attempts |-> <<lang, "en">>, selected |-> "en", ok |-> TRUE,
          msgs |-> <<FallbackWarning>>]
    ELSE [attempts |-> <<lang, "en">>, selected |-> NoTrack, ok |-> FALSE,
          msgs |-> <<Error("Could not find transcript")>>]

\* the error shown whether or not there is a summary (a missing else)
RenderOutcome_NoElse(s) ==
    [rendered |-> IF Truthy(s) THEN s ELSE None,
     msgs |-> <<Error("Failed to generate summary")>>]

\* lines 127-131: what the handler shows for generate_summary's result
RenderOutcome(s) ==
    IF Truthy(s)
    THEN [rendered |-> s, msgs |-> <<>>]
    ELSE [rendered |-> None, msgs |-> <<Error("Failed to generate summary")>>]

-----------------------------------------------------------------------------
(* The script *)

Fresh ==
    /\ resolved = NotCalled
    /\ thumbnail = FALSE
    /\ video_id = None
    /\ tracks = {}
    /\ attempts = <<>>
    /\ selected = NoTrack
    /\ transcript_data = None
    /\ transcript_text = <<>>
    /\ document = None
    /\ calls = <<>>
    /\ messages = <<>>
    /\ gen_input = <<>>
    /\ summary = None
    /\ rendered = None

\* a run of the script with the button pressed or not
Init ==
    /\ pc = "preview"
    /\ youtube_url \in PipelineURLs
    /\ language \in Languages
    /\ summary_length \in Lengths
    /\ lang_arg = "en"
    /\ Fresh

\* lines 112-119: the thumbnail; any exception is swallowed
Preview ==
    /\ pc = "preview"
    /\ pc' = "button"
    /\ IF youtube_url # EmptyURL
       THEN /\ resolved' = ExtractVideoId(youtube_url)
            /\ thumbnail' = (resolved'.t = "str" /\ Truthy(resolved'))
       ELSE UNCHANGED <<resolved, thumbnail>>
    /\ UNCHANGED <<youtube_url, language, summary_length, lang_arg, video_id,
                   tracks, attempts, selected, transcript_data, transcript_text,
                   document, calls, messages, gen_input, summary, rendered>>

\* line 121: the button was not pressed, the script ends
NoClick ==
    /\ pc = "button"
    /\ pc' = "idle"
    /\ UNCHANGED <<youtube_url, language, summary_length, resolved, thumbnail,
                   lang_arg, video_id, tracks, attempts, selected,
                   transcript_data, transcript_text, document, calls, messages,
                   gen_input, summary, rendered>>

\* lines 121-124 and 134-135: get_transcript_text(youtube_url) is called
\* without a language, so its parameter takes the default 'en'
Click ==
    /\ pc = "button"
    /\ IF youtube_url # EmptyURL
       THEN /\ pc' = "gtt_resolve"
            /\ lang_arg' = "en"
            /\ UNCHANGED messages
       ELSE /\ pc' = "done"
            /\ messages' = Append(messages, Warning("Please enter a YouTube URL first"))
            /\ UNCHANGED lang_arg
    /\ UNCHANGED <<youtube_url, language, summary_length, resolved, thumbnail,
                   video_id, tracks, attempts, selected, transcript_data,
                   transcript_text, document, calls, gen_input, summary, rendered>>

\* lines 29-33, and 74-76 for an exception of extract_video_id
GttResolve ==
    /\ pc = "gtt_resolve"
    /\ LET r == ExtractVideoId(youtube_url)
       IN IF r.t = "raise"
          THEN /\ messages' = Append(messages, Error("Error fetching transcript"))
               /\ pc' = "gtt_returned"
               /\ UNCHANGED video_id
          ELSE IF ~Truthy(r)
          THEN /\ video_id' = r
               /\ messages' = Append(messages, Error("Invalid YouTube URL"))
               /\ pc' = "gtt_returned"
          ELSE /\ video_id' = r
               /\ pc' = "gtt_list"
               /\ UNCHANGED messages
    /\ document' = None
    /\ UNCHANGED <<youtube_url, language, summary_length, resolved, thumbnail,
                   lang_arg, tracks, attempts, selected, transcript_data,
                   transcript_text, calls, gen_input, summary, rendered>>

\* line 35, and 74-76 when the service raises
GttList ==
    /\ pc = "gtt_list"
    /\ calls' = Append(calls, "list_transcripts")
    /\ \/ /\ messages' = Append(messages, Error("Error fetching transcript"))
          /\ pc' = "gtt_returned"
          /\ UNCHANGED tracks
       \/ /\ tracks' \in SUBSET TrackLangs
          /\ pc' = "gtt_find"
          /\ UNCHANGED messages
    /\ UNCHANGED <<youtube_url, language, summary_length, resolved, thumbnail,
                   lang_arg, video_id, attempts, selected, transcript_data,
                   transcript_text, document, gen_input, summary, rendered>>

\* lines 36-44
GttFind ==
    /\ pc = "gtt_find"
    /\ LET o == FindOutcome(tracks, lang_arg)
       IN /\ attempts' = o.attempts
          /\ selected' = o.selected
          /\ messages' = messages \o o.msgs
          /\ pc' = IF o.ok THEN "gtt_fetch" ELSE "gtt_returned"
    /\ UNCHANGED <<youtube_url, language, summary_length, resolved, thumbnail,
                   lang_arg, video_id, tracks, transcript_data, transcript_text,
                   document, calls, gen_input, summary, rendered>>

\* lines 46-50
GttFetch ==
    /\ pc = "gtt_fetch"
    /\ calls' = Append(calls, "fetch")
    /\ \/ /\ messages' = Append(messages, Error("Failed to fetch transcript data"))
          /\ pc' = "gtt_returned"
          /\ UNCHANGED transcript_data
       \/ /\ transcript_data' \in PipelineData
          /\ pc' = "gtt_process"
          /\ UNCHANGED messages
    /\ UNCHANGED <<youtube_url, language, summary_length, resolved, thumbnail,
                   lang_arg, video_id, tracks, attempts, selected,
                   transcript_text, document, gen_input, summary, rendered>>

\* lines 52-72
GttProcess ==
    /\ pc = "gtt_process"
    /\ LET o == ProcessData(transcript_data)
       IN /\ transcript_text' = o.list
          /\ messages' = messages \o o.msgs
          /\ document' = o.doc
    /\ pc' = "gtt_returned"
    /\ UNCHANGED <<youtube_url, language, summary_length, resolved, thumbnail,
                   lang_arg, video_id, tracks, attempts, selected,
                   transcript_data, calls, gen_input, summary, rendered>>

\* lines 124-126 and 132-133
HandlerTranscript ==
    /\ pc = "gtt_returned"
    /\ IF Truthy(document)
       THEN /\ pc' = "generate"
            /\ UNCHANGED messages
       ELSE /\ pc' = "done"
            /\ messages' = Append(messages, Error("Could not retrieve transcript"))
    /\ UNCHANGED <<youtube_url, language, summary_length, resolved, thumbnail,
                   lang_arg, video_id, tracks, attempts, selected,
                   transcript_data, transcript_text, document, calls, gen_input,
                   summary, rendered>>

\* generate_summary, lines 78-87
Generate ==
    /\ pc = "generate"
    /\ gen_input' = GenerationInput(DEFAULT_PROMPT(summary_length), document.v)
    /\ calls' = Append(calls, "generate_content")
    /\ \/ /\ messages' = Append(messages, Error("AI Generation Error"))
          /\ summary' = None
       \/ /\ summary' \in Summaries
          /\ UNCHANGED messages
    /\ pc' = "render"
    /\ UNCHANGED <<youtube_url, language, summary_length, resolved, thumbnail,
                   lang_arg, video_id, tracks, attempts, selected,
                   transcript_data, transcript_text, document, rendered>>

\* lines 127-131
Render ==
    /\ pc = "render"
    /\ LET o == RenderOutcome(summary)
       IN /\ rendered' = o.rendered
          /\ messages' = messages \o o.msgs
    /\ pc' = "done"
    /\ UNCHANGED <<youtube_url, language, summary_length, resolved, thumbnail,
                   lang_arg, video_id, tracks, attempts, selected,
                   transcript_data, transcript_text, document, calls, gen_input,
                   summary>>

Next ==
    \/ Preview
    \/ NoClick
    \/ Click
    \/ GttResolve
    \/ GttList
    \/ GttFind
    \/ GttFetch
    \/ GttProcess
    \/ HandlerTranscript
    \/ Generate
    \/ Render

Spec == Init /\ [][Next]_vars

-----------------------------------------------------------------------------
(* extract_video_id on every URL of the bounded URL space: the preview     *)
(* step of a run, which calls it on whatever was typed                     *)

InitResolve ==
    /\ pc = "preview"
    /\ youtube_url \in URLs
    /\ language = "en"
    /\ summary_length = "Medium"
    /\ lang_arg = "en"
    /\ Fresh

NextResolve == Preview

SpecResolve == InitResolve /\ [][NextResolve]_vars

-----------------------------------------------------------------------------
(* get_transcript_text(youtube_url, language) called with every language   *)

InitFetch ==
    /\ pc = "gtt_resolve"
    /\ youtube_url \in PipelineURLs
    /\ lang_arg \in Languages
    /\ language = lang_arg
    /\ summary_length = "Medium"
    /\ Fresh

NextFetch ==
    \/ GttResolve
    \/ GttList
    \/ GttFind
    \/ GttFetch
    \/ GttProcess

SpecFetch == InitFetch /\ [][NextFetch]_vars

-----------------------------------------------------------------------------
(* lines 52-72 on every fetched data of the bounded data space: the state  *)
(* of a run of https://youtu.be/x right after transcript.fetch() returned  *)

InitData ==
    /\ pc = "gtt_process"
    /\ youtube_url = URL("youtu.be", <<"/", "x">>, <<>>)
    /\ language = "en"
    /\ summary_length = "Medium"
    /\ lang_arg = "en"
    /\ resolved = Str(<<"x">>)
    /\ thumbnail = TRUE
    /\ video_id = Str(<<"x">>)
    /\ tracks = {"en"}
    /\ attempts = <<"en">>
    /\ selected = "en"
    /\ transcript_data \in FetchedData
    /\ transcript_text = <<>>
    /\ document = None
    /\ calls = <<"list_transcripts", "fetch">>
    /\ messages = <<>>
    /\ gen_input = <<>>
    /\ summary = None
    /\ rendered = None

NextData == GttProcess

SpecData == InitData /\ [][NextData]_vars

-----------------------------------------------------------------------------
(* Properties *)

Range(f) == {f[i] : i \in DOMAIN f}

IsShortHost(url) == url.netloc = "youtu.be"

IsPrimaryHost(url) == url.netloc \in {"www.youtube.com", "youtube.com", "YouTube.com"}

HasMarker(path) ==
    Len(path) >= 3 /\ path[1] = "/" /\ path[2] \in {"embed", "v"} /\ path[3] = "/"

\* the tokens of s up to the first "/"
RECURSIVE UpToSlash(_)
UpToSlash(s) ==
    IF s = <<>> \/ Head(s) = "/" THEN <<>> ELSE <<Head(s)>> \o UpToSlash(Tail(s))

\* the positions of the query's v pairs that carry a value
VPositions(query) == {i \in DOMAIN query : query[i].k = "v" /\ query[i].v # <<>>}

FirstV(query) ==
    query[CHOOSE i \in VPositions(query) : \A j \in VPositions(query) : i <= j].v

ResolveCalled == pc = "button" /\ youtube_url # EmptyURL

\* C1: extract_video_id returns, for host youtu.be, the path without its
\* leading slash; for a primary host with path /watch, the first value of the
\* v parameter (and no identifier when v has none); for a primary host with a
\* path starting /embed/ or /v/, the segment after the marker; and None for
\* every other host or path.
C1_ResolveByShape ==
    ResolveCalled =>
      LET u == youtube_url
      IN CASE IsShortHost(u) ->
                resolved = Str(IF u.path = <<>> THEN <<>> ELSE Tail(u.path))
           [] IsPrimaryHost(u) /\ u.path = <<"/", "watch">> ->
                IF VPositions(u.query) # {}
                THEN resolved = Str(FirstV(u.query))
                ELSE resolved.t # "str"
           [] IsPrimaryHost(u) /\ HasMarker(u.path) ->
                resolved = Str(UpToSlash(SubSeq(u.path, 4, Len(u.path))))
           [] OTHER -> resolved = None

C1_Witness ==
    /\ ResolveCalled
    /\ youtube_url.netloc = "youtube.com"
    /\ youtube_url.path = <<"/", "v", "/", "x">>
    /\ resolved = Str(<<"x">>)

\* C9: extract_video_id never returns an empty string as an identifier.
C9_IdentifierNonEmpty ==
    (ResolveCalled /\ resolved.t = "str") => resolved.v # <<>>

\* the URL yields an identifier: a non-empty string
YieldsIdentifier(url) ==
    LET r == ExtractVideoId(url) IN r.t = "str" /\ r.v # <<>>

ResolveDone ==
    pc \in {"gtt_list", "gtt_find", "gtt_fetch", "gtt_process", "gtt_returned",
            "generate", "render", "done"}

\* C2: a run on a (non-empty) URL from which no identifier can be resolved
\* reports "Invalid YouTube URL" and calls neither service.
C2_InvalidURLReported ==
    (ResolveDone /\ youtube_url # EmptyURL /\ ~YieldsIdentifier(youtube_url)) =>
        /\ Error("Invalid YouTube URL") \in Range(messages)
        /\ calls = <<>>

\* C3: the first track the fetcher attempts is the track of the language the
\* user selected; English is attempted only after it.
C3_FirstAttemptIsSelectedLanguage ==
    attempts # <<>> => attempts[1] = language

Warned == FallbackWarning \in Range(messages)

SelectionError == Error("Could not find transcript") \in Range(messages)

\* C4: in get_transcript_text, a missing preferred track with an English track
\* present selects English with the fallback warning and no selection error;
\* the warning is emitted in no other case; with both tracks missing the
\* selection error is reported and no document is returned.
C4_FallbackWarning ==
    /\ Warned => attempts # <<>>
    /\ attempts # <<>> =>
         /\ (lang_arg \notin tracks /\ "en" \in tracks) =>
                selected = "en" /\ Warned /\ ~SelectionError
         /\ Warned => (lang_arg \notin tracks /\ "en" \in tracks)
         /\ lang_arg \in tracks =>
                selected = lang_arg /\ ~Warned /\ ~SelectionError
         /\ (lang_arg \notin tracks /\ "en" \notin tracks) =>
                /\ SelectionError
                /\ selected = NoTrack
                /\ document = None
                /\ pc = "gtt_returned"

C4_Witness ==
    /\ pc = "gtt_fetch"
    /\ lang_arg = "fr"
    /\ tracks = {"en", "es"}
    /\ selected = "en"
    /\ Warned

IsErrorMessage(m) == m.level = "error"

IsKept(e) == e.t = "dict" /\ e.text.t = "str" /\ e.text.v # <<>>

\* s between its first and its last character that is no whitespace
Trimmed(s) ==
    LET solid == {i \in DOMAIN s : s[i] # " "}
    IN IF solid = {} THEN <<>>
       ELSE SubSeq(s, CHOOSE i \in solid : \A j \in solid : i <= j,
                      CHOOSE i \in solid : \A j \in solid : i >= j)

\* the pieces with one space between neighbours, built from the left
RECURSIVE SpaceJoined(_, _)
SpaceJoined(parts, n) ==
    IF n = 0 THEN <<>>
    ELSE IF n = 1 THEN parts[1]
    ELSE SpaceJoined(parts, n - 1) \o <<" ">> \o parts[n]

ExpectedDocument(es) ==
    LET kept == SelectSeq(es, IsKept)
        pieces == [i \in DOMAIN kept |-> Trimmed(kept[i].text.v)]
    IN SpaceJoined(pieces, Len(pieces))

Processed == pc = "gtt_returned" /\ calls = <<"list_transcripts", "fetch">>

\* C6: the returned document is the kept entries' texts, each trimmed, in
\* order, joined by one space; other entries are skipped and do not fail the
\* request.
C6_DocumentIsJoinedTexts ==
    (Processed /\ transcript_data.t = "list") =>
        /\ document # None => document = Str(ExpectedDocument(transcript_data.v))
        /\ (\E i \in DOMAIN transcript_data.v : IsKept(transcript_data.v[i])) =>
               document # None

C6_Witness ==
    /\ Processed
    /\ transcript_data = List(<< [t |-> "dict", text |-> Str(<<" ", "a">>)],
                                 [t |-> "dict", text |-> Str(<<>>)],
                                 [t |-> "dict", text |-> Str(<<"a", " ">>)] >>)
    /\ document = Str(<<"a", " ", "a">>)

NoValidEntry(es) == \A i \in DOMAIN es : ~IsKept(es[i])

NoValidTextReported ==
    /\ Error("No valid transcript text found in the video") \in Range(messages)
    /\ document = None

\* C7 as stated: fetched data with zero valid entries reports "No valid
\* transcript text found in the video" and yields no document.
C7_ZeroValidEntries ==
    (Processed /\ transcript_data.t = "list" /\ NoValidEntry(transcript_data.v)) =>
        NoValidTextReported

\* C7 as amended: a non-empty fetched list with zero valid entries reports "No
\* valid transcript text found in the video" and yields no document.
C7_ZeroValidEntriesOfNonEmptyList ==
    (/\ Processed
     /\ transcript_data.t = "list"
     /\ transcript_data.v # <<>>
     /\ NoValidEntry(transcript_data.v)) =>
        NoValidTextReported

C7_Witness ==
    /\ Processed
    /\ transcript_data = List(<< [t |-> "dict", text |-> Str(<<>>)],
                                 [t |-> "other", text |-> Missing] >>)
    /\ NoValidTextReported

Limits == {"max 100 words", "max 250 words", "max 500 words"}

LimitOf(len) ==
    CASE len = "Short" -> "max 100 words"
      [] len = "Medium" -> "max 250 words"
      [] len = "Long" -> "max 500 words"

FourElements ==
    {"1. Key topics covered\n", "2. Main points discussed\n",
     "3. Important conclusions\n", "4. Overall significance\n"}

GenerationCalled == "generate_content" \in Range(calls)

\* C8: the text given to the generation service is the directive followed at
\* once by the transcript; the directive holds the word limit of the chosen
\* length and no other, and asks for the four elements.
C8_DirectiveThenTranscript ==
    GenerationCalled =>
        LET n == Len(gen_input) - Len(document.v)
            directive == SubSeq(gen_input, 1, n)
        IN /\ n > 0
           /\ SubSeq(gen_input, n + 1, Len(gen_input)) = document.v
           /\ directive[n] = ". Present in clear, concise bullet points:\n"
           /\ Range(directive) \cap Limits = {LimitOf(summary_length)}
           /\ FourElements \subseteq Range(directive)
           /\ Range(directive) \cap Chars = {}

C8_Witness ==
    /\ GenerationCalled
    /\ summary_length = "Short"
    /\ "max 100 words" \in Range(gen_input)
    /\ document = Str(<<"a">>)
    /\ gen_input[Len(gen_input)] = "a"

\* C10: a returned document is non-empty and every kept entry contributes a
\* non-empty piece to it.
C10_DocumentNonEmpty ==
    (Processed /\ document # None) =>
        /\ document.v # <<>>
        /\ \A i \in DOMAIN transcript_text : transcript_text[i] # <<>>

====
